---- MODULE Spec2Model ----
(***************************************************************************)
(* scope_store (src/src/lib.rs): a tree of scopes.  Every node (Scope<T>)  *)
(* holds a map `data` from identifiers to values, an optional `parent`     *)
(* and an optional cached `root`.  PScope<T> is the Rc<RefCell<Scope<T>>>  *)
(* handle through which every operation is issued.                         *)
(*                                                                         *)
(* Nodes are numbered 1..Len(data) in the order they were allocated.       *)
(* A call is one action: it runs to its return, as the code does on its    *)
(* single thread; `last` and `prev` keep the call and the store it found   *)
(* until the caller goes on (Continue).  An update whose closure issues    *)
(* calls of its own is two actions, its entry into the closure and its     *)
(* return, with the calls of the closure in between; the RefCell borrows   *)
(* it holds meanwhile are in `running`.  The definitions in parentheses    *)
(* are variants of the operator that follows them, used to show that the   *)
(* properties depend on it.                                                *)
(* An Option<X> is the sequence <<>> (None) or <<x>> (Some(x)).            *)
(* A BTreeMap<String,T> is a function whose DOMAIN is its key set.         *)
(***************************************************************************)
EXTENDS Naturals, Sequences, FiniteSets

VARIABLES
    data,     \* data[n]   : Scope.data of node n (BTreeMap<String,T>)
    parent,   \* parent[n] : Scope.parent of node n, NoNode for None
    root,     \* root[n]   : Scope.root of node n, NoNode for None
    last,     \* the call that has just returned, with its result
    prev,     \* `data` as it was when that call was issued
    landed,   \* per node and identifier, the value of the latest write there
    glob,     \* per root and identifier, the value of a set_global still in force
    ncalls,   \* the number of calls issued so far
    running,  \* the update whose closure is running: the nodes it holds borrowed
    fault,    \* the call that panicked on a RefCell borrow, "none" while none has
    handles   \* the PScope handles the caller holds: the node each denotes (node)
              \* and the handle it was cloned from (from; itself when returned
              \* by new or child)

vars == <<data, parent, root, last, prev, landed, glob, ncalls, running, fault, handles>>

\* ------------------------------------------------------------------ bounds
MaxCalls == 4
MaxVal == 2

Ids == {"a", "b"}
Val == 1 .. MaxVal
Fns == {"inc", "take"}

NoNode == 0
None == <<>>
Some(v) == <<v>>
EmptyMap == [i \in {} |-> 0]

Nodes == 1 .. Len(data)

\* ------------------------------------------------------- BTreeMap<String,T>
contains_key(m, id) == id \in DOMAIN m

map_get(m, id) == IF id \in DOMAIN m THEN Some(m[id]) ELSE None

insert(m, id, v) == [i \in (DOMAIN m) \cup {id} |-> IF i = id THEN v ELSE m[i]]

\* ------------------------------------------------- the closures given to update
\* "inc"  : |n| { *n = *n % MaxVal + 1; *n }   stores the next value, returns it
\* "take" : |n| std::mem::replace(n, 1)         stores 1, returns the old value
ApplyFn(f, v) ==
    IF f = "inc"
    THEN [val |-> (v % MaxVal) + 1, out |-> (v % MaxVal) + 1]
    ELSE [val |-> 1, out |-> v]

\* ------------------------------------------------------------ impl Scope<T>
\* (a try_replace that asks the parent only once, without walking further up)
Scope_try_replace_one_hop(D, n, id, v) ==
    IF contains_key(D[n], id)
    THEN [data |-> [D EXCEPT ![n] = insert(@, id, v)], ret |-> None]
    ELSE [data |-> D, ret |-> Some(v)]

\* (a try_replace that declares the binding at the root when nobody has it)
RECURSIVE Scope_try_replace_declaring(_, _, _, _)
Scope_try_replace_declaring(D, n, id, v) ==
    IF contains_key(D[n], id)
    THEN [data |-> [D EXCEPT ![n][id] = v], ret |-> None]
    ELSE IF parent[n] # NoNode
         THEN Scope_try_replace_declaring(D, parent[n], id, v)
         ELSE [data |-> [D EXCEPT ![n] = insert(@, id, v)], ret |-> None]

RECURSIVE Scope_try_replace(_, _, _, _)
Scope_try_replace(D, n, id, v) ==
    IF contains_key(D[n], id)
    THEN [data |-> [D EXCEPT ![n][id] = v], ret |-> None]
    ELSE IF parent[n] # NoNode
         THEN Scope_try_replace(D, parent[n], id, v)
         ELSE [data |-> D, ret |-> Some(v)]

PScope_try_replace(D, n, id, v) == Scope_try_replace(D, n, id, v)

\* (a set that always declares locally)
Scope_set_shadowing(D, n, id, v) == [D EXCEPT ![n] = insert(@, id, v)]

\* (a set whose fallback declares at the cached root, where the search ended)
Scope_set_declare_at_root(D, n, id, v) ==
    IF contains_key(D[n], id)
    THEN [D EXCEPT ![n] = insert(@, id, v)]
    ELSE IF parent[n] # NoNode
         THEN LET r == PScope_try_replace(D, parent[n], id, v)
              IN  IF r.ret # None
                  THEN [r.data EXCEPT ![root[n]] = insert(@, id, r.ret[1])]
                  ELSE r.data
         ELSE [D EXCEPT ![n] = insert(@, id, v)]

\* (a set that declares locally even after it has overwritten an ancestor's binding)
Scope_set_and_declare(D, n, id, v) ==
    IF contains_key(D[n], id)
    THEN [D EXCEPT ![n] = insert(@, id, v)]
    ELSE IF parent[n] # NoNode
         THEN LET r == PScope_try_replace(D, parent[n], id, v)
              IN  [r.data EXCEPT ![n] = insert(@, id, v)]
         ELSE [D EXCEPT ![n] = insert(@, id, v)]

Scope_set(D, n, id, v) ==
    IF contains_key(D[n], id)
    THEN [D EXCEPT ![n] = insert(@, id, v)]
    ELSE IF parent[n] # NoNode
         THEN LET r == PScope_try_replace(D, parent[n], id, v)
              IN  IF r.ret # None
                  THEN [r.data EXCEPT ![n] = insert(@, id, r.ret[1])]
                  ELSE r.data
         ELSE [D EXCEPT ![n] = insert(@, id, v)]

PScope_set(D, n, id, v) == Scope_set(D, n, id, v)

\* (a set_local that assigns lexically, as set does)
Scope_set_local_lexical(D, n, id, v) == PScope_set(D, n, id, v)

Scope_set_local(D, n, id, v) == [D EXCEPT ![n] = insert(@, id, v)]

\* (a set_global that assigns lexically from the node itself)
Scope_set_global_lexical(D, n, id, v) == PScope_set(D, n, id, v)

\* (a set_global that goes to the parent instead of the cached root)
Scope_set_global_via_parent(D, n, id, v) ==
    IF parent[n] # NoNode
    THEN PScope_set(D, parent[n], id, v)
    ELSE [D EXCEPT ![n] = insert(@, id, v)]

\* (a set_global that drops the issuing node's own binding of id, so that the
\* node reads the global value)
Scope_set_global_unshadowing(D, n, id, v) ==
    IF root[n] # NoNode
    THEN PScope_set([D EXCEPT ![n] = [i \in (DOMAIN @) \ {id} |-> @[i]]], root[n], id, v)
    ELSE [D EXCEPT ![n] = insert(@, id, v)]

Scope_set_global(D, n, id, v) ==
    IF root[n] # NoNode
    THEN PScope_set(D, root[n], id, v)
    ELSE [D EXCEPT ![n] = insert(@, id, v)]

\* (an update that hands back the stored value instead of the closure's result)
RECURSIVE Scope_update_returns_stored(_, _, _, _)
Scope_update_returns_stored(D, n, k, f) ==
    IF contains_key(D[n], k)
    THEN LET r == ApplyFn(f, D[n][k])
         IN  [data |-> [D EXCEPT ![n][k] = r.val], ret |-> Some(r.val), calls |-> 1]
    ELSE IF parent[n] # NoNode
         THEN Scope_update_returns_stored(D, parent[n], k, f)
         ELSE [data |-> D, ret |-> None, calls |-> 0]

\* (an update that declares the identifier where the search ends)
RECURSIVE Scope_update_or_insert(_, _, _, _)
Scope_update_or_insert(D, n, k, f) ==
    IF contains_key(D[n], k)
    THEN LET r == ApplyFn(f, D[n][k])
         IN  [data |-> [D EXCEPT ![n][k] = r.val], ret |-> Some(r.out), calls |-> 1]
    ELSE IF parent[n] # NoNode
         THEN Scope_update_or_insert(D, parent[n], k, f)
         ELSE [data |-> [D EXCEPT ![n] = insert(@, k, 1)], ret |-> None, calls |-> 0]

RECURSIVE Scope_update(_, _, _, _)
Scope_update(D, n, k, f) ==
    IF contains_key(D[n], k)
    THEN LET r == ApplyFn(f, D[n][k])
         IN  [data |-> [D EXCEPT ![n][k] = r.val], ret |-> Some(r.out), calls |-> 1]
    ELSE IF parent[n] # NoNode
         THEN Scope_update(D, parent[n], k, f)
         ELSE [data |-> D, ret |-> None, calls |-> 0]

\* (a get that consults the cached root instead of walking the parents)
Scope_get_via_root(D, n, k) ==
    IF contains_key(D[n], k)
    THEN Some(D[n][k])
    ELSE IF root[n] # NoNode
         THEN map_get(D[root[n]], k)
         ELSE None

RECURSIVE Scope_get(_, _, _)
Scope_get(D, n, k) ==
    IF contains_key(D[n], k)
    THEN Some(D[n][k])
    ELSE IF parent[n] # NoNode
         THEN Scope_get(D, parent[n], k)
         ELSE None

\* --------------------------------------------------------------- the caller
NoCall == [op |-> "none", n |-> NoNode, id |-> "-", val |-> 0, f |-> "-",
           ret |-> None, calls |-> 0]

Call(op, n, id, val, f, ret, calls) ==
    [op |-> op, n |-> n, id |-> id, val |-> val, f |-> f, ret |-> ret, calls |-> calls]

\* ------------------------------------------------- the RefCell of each node
\* Every PScope method borrows the RefCell of its node before it calls into
\* Scope (borrow_mut for the writes, borrow for get and child), and keeps the
\* borrow until it returns; a call into a parent or into the root goes through
\* that node's PScope and borrows that node in turn.  The operators below give
\* the nodes a call borrows, in the order it borrows them.  In every method
\* the only write to a map comes after the last borrow it takes.
Borrows_set_local(D, x, id) == <<x>>

RECURSIVE Borrows_try_replace(_, _, _)
Borrows_try_replace(D, x, id) ==
    IF contains_key(D[x], id)
    THEN <<x>>
    ELSE IF parent[x] # NoNode
         THEN <<x>> \o Borrows_try_replace(D, parent[x], id)
         ELSE <<x>>

Borrows_set(D, x, id) ==
    IF contains_key(D[x], id)
    THEN <<x>>
    ELSE IF parent[x] # NoNode
         THEN <<x>> \o Borrows_try_replace(D, parent[x], id)
         ELSE <<x>>

\* (a set_global that, on the root, writes through the root's own handle)
Borrows_set_global_reborrows(D, x, id) ==
    IF root[x] # NoNode
    THEN <<x>> \o Borrows_set(D, root[x], id)
    ELSE <<x, x>>

Borrows_set_global(D, x, id) ==
    IF root[x] # NoNode
    THEN <<x>> \o Borrows_set(D, root[x], id)
    ELSE <<x>>

\* (an update that lets go of each node before it asks the parent)
RECURSIVE Borrows_update_releasing(_, _, _)
Borrows_update_releasing(D, x, k) ==
    IF contains_key(D[x], k)
    THEN <<x>>
    ELSE IF parent[x] # NoNode
         THEN Borrows_update_releasing(D, parent[x], k)
         ELSE <<x>>

RECURSIVE Borrows_update(_, _, _)
Borrows_update(D, x, k) ==
    IF contains_key(D[x], k)
    THEN <<x>>
    ELSE IF parent[x] # NoNode
         THEN <<x>> \o Borrows_update(D, parent[x], k)
         ELSE <<x>>

\* (a get that, on a local miss, tries the cached root before the parents)
RECURSIVE Borrows_get_root_first(_, _, _)
Borrows_get_root_first(D, x, k) ==
    IF contains_key(D[x], k)
    THEN <<x>>
    ELSE IF parent[x] # NoNode
         THEN <<x, root[x]>> \o Borrows_get_root_first(D, parent[x], k)
         ELSE <<x>>

RECURSIVE Borrows_get(_, _, _)
Borrows_get(D, x, k) ==
    IF contains_key(D[x], k)
    THEN <<x>>
    ELSE IF parent[x] # NoNode
         THEN <<x>> \o Borrows_get(D, parent[x], k)
         ELSE <<x>>

Borrows_child(D, x, id) == <<x>>

BorrowsOf(op, D, x, id) ==
    CASE op = "set_local" -> Borrows_set_local(D, x, id)
      [] op = "set_global" -> Borrows_set_global(D, x, id)
      [] op = "set" -> Borrows_set(D, x, id)
      [] op = "try_replace" -> Borrows_try_replace(D, x, id)
      [] op = "update" -> Borrows_update(D, x, id)
      [] op = "get" -> Borrows_get(D, x, id)
      [] op = "child" -> Borrows_child(D, x, id)
      [] OTHER -> <<>>

\* get and child take shared borrows, the writes take exclusive ones
Shared(op) == op \in {"get", "child"}

\* RefCell::borrow / borrow_mut along the path: a borrow is refused on a node
\* that is exclusively borrowed already, by the update whose closure is running
\* (held) or, for an exclusive borrow, earlier on the path itself
Granted(path, held, shared) ==
    /\ \A i \in 1 .. Len(path) : path[i] \notin held
    /\ shared \/ \A i, j \in 1 .. Len(path) : path[i] = path[j] => i = j

\* no update is running its closure
NoRun == [n |-> NoNode, id |-> "-", f |-> "-", m |-> NoNode, held |-> {}]

\* the program is between two calls and may issue one
Ready == last.op = "none" /\ ncalls < MaxCalls /\ fault = "none"

\* the call op(id, ..) on node x gets every borrow it asks for
Borrowed(op, x, id) ==
    Ready /\ Granted(BorrowsOf(op, data, x, id), running.held, Shared(op))

\* ------------------------------------------------ the chain of a node, read off
\* the parent references: n, parent(n), parent(parent(n)), ..., the root
RECURSIVE Chain(_)
Chain(n) == IF parent[n] = NoNode THEN <<n>> ELSE <<n>> \o Chain(parent[n])

ChainSet(n) == {Chain(n)[i] : i \in 1 .. Len(Chain(n))}

TreeRoot(n) == Chain(n)[Len(Chain(n))]

\* m is n or a descendant of n
InSubtree(m, n) == n \in ChainSet(m)

\* the first node of n's chain whose map M[.] binds id, NoNode when none does
NearestBinder(M, n, id) ==
    LET c == Chain(n)
        hits == {i \in 1 .. Len(c) : id \in DOMAIN M[c[i]]}
    IN  IF hits = {} THEN NoNode
        ELSE c[CHOOSE i \in hits : \A j \in hits : i <= j]

\* what a lookup of id from n must give in the store M
Lookup(M, n, id) ==
    LET b == NearestBinder(M, n, id)
    IN  IF b = NoNode THEN None ELSE Some(M[b][id])

\* ------------------------------------------------- the record of the writes
\* The node on which a write of id issued on n lands, by the rules of the four
\* write disciplines (NoNode: the call writes nothing).
Target(op, n, id) ==
    LET b == NearestBinder(landed, n, id)
    IN  CASE op = "set_local" -> n
          [] op = "set_global" -> TreeRoot(n)
          [] op = "set" -> IF b = NoNode THEN n ELSE b
          [] OTHER -> b

\* landed after the call: the value v is now the latest write on its target
Land(op, n, id, v) ==
    LET t == Target(op, n, id)
    IN  IF t = NoNode THEN landed ELSE [landed EXCEPT ![t] = insert(@, id, v)]

\* glob after the call: a set_global puts its value on record at the root of the
\* tree; the record is struck when a later call shadows the identifier with
\* set_local or writes the root's binding of it
Without(m, id) == [i \in (DOMAIN m) \ {id} |-> m[i]]

Note(op, n, id, v) ==
    LET r == TreeRoot(n)
        t == Target(op, n, id)
    IN  IF op = "set_global"
        THEN [glob EXCEPT ![r] = insert(@, id, v)]
        ELSE IF op = "set_local" \/ t = r
             THEN [glob EXCEPT ![r] = Without(@, id)]
             ELSE glob

Init ==
    /\ glob = <<EmptyMap>>
    /\ data = <<EmptyMap>>
    /\ parent = <<NoNode>>
    /\ root = <<NoNode>>
    /\ last = NoCall
    /\ prev = <<EmptyMap>>
    /\ landed = <<EmptyMap>>
    /\ ncalls = 0
    /\ running = NoRun
    /\ fault = "none"
    /\ handles = <<[node |-> 1, from |-> 1]>>

\* ------------------------------------------------------------ impl PScope<T>
PScope_new ==
    /\ Ready
    /\ data' = Append(data, EmptyMap)
    /\ parent' = Append(parent, NoNode)
    /\ root' = Append(root, NoNode)
    /\ landed' = Append(landed, EmptyMap)
    /\ glob' = Append(glob, EmptyMap)
    /\ prev' = data
    /\ ncalls' = ncalls + 1
    /\ last' = Call("new", Len(data) + 1, "-", 0, "-", None, 0)
    /\ handles' = Append(handles, [node |-> Len(data) + 1, from |-> Len(handles) + 1])
    /\ UNCHANGED <<running, fault>>

\* (a child whose parent reference is the cached root)
PScope_child_under_root(n) ==
    /\ Borrowed("child", n, "-")
    /\ data' = Append(data, EmptyMap)
    /\ parent' = Append(parent, IF root[n] # NoNode THEN root[n] ELSE n)
    /\ root' = Append(root, IF root[n] # NoNode THEN root[n] ELSE n)
    /\ landed' = Append(landed, EmptyMap)
    /\ glob' = Append(glob, EmptyMap)
    /\ prev' = data
    /\ ncalls' = ncalls + 1
    /\ last' = Call("child", n, "-", 0, "-", Some(Len(data) + 1), 0)
    /\ handles' = Append(handles, [node |-> Len(data) + 1, from |-> Len(handles) + 1])
    /\ UNCHANGED <<running, fault>>

\* (a clone that copies the node instead of sharing it)
PScope_clone_copies(h) ==
    /\ Ready
    /\ data' = Append(data, data[handles[h].node])
    /\ parent' = Append(parent, parent[handles[h].node])
    /\ root' = Append(root, root[handles[h].node])
    /\ landed' = Append(landed, landed[handles[h].node])
    /\ glob' = Append(glob, glob[handles[h].node])
    /\ handles' = Append(handles, [node |-> Len(data) + 1, from |-> h])
    /\ UNCHANGED <<running, fault>>
    /\ prev' = data
    /\ ncalls' = ncalls + 1
    /\ last' = Call("clone", handles[h].node, "-", 0, "-", Some(Len(data) + 1), 0)

\* impl Clone for PScope: Rc::clone, one more handle to the same node
PScope_clone(h) ==
    /\ Ready
    /\ handles' = Append(handles, [node |-> handles[h].node, from |-> h])
    /\ prev' = data
    /\ ncalls' = ncalls + 1
    /\ last' = Call("clone", handles[h].node, "-", 0, "-", Some(handles[h].node), 0)
    /\ UNCHANGED <<data, parent, root, landed, glob, running, fault>>

\* (a child that caches its parent as its root)
PScope_child_root_is_parent(n) ==
    /\ Borrowed("child", n, "-")
    /\ data' = Append(data, EmptyMap)
    /\ parent' = Append(parent, n)
    /\ root' = Append(root, n)
    /\ landed' = Append(landed, EmptyMap)
    /\ glob' = Append(glob, EmptyMap)
    /\ prev' = data
    /\ ncalls' = ncalls + 1
    /\ last' = Call("child", n, "-", 0, "-", Some(Len(data) + 1), 0)
    /\ handles' = Append(handles, [node |-> Len(data) + 1, from |-> Len(handles) + 1])
    /\ UNCHANGED <<running, fault>>

\* (a child that takes the bindings of its parent with it)
PScope_child_moves_bindings(n) ==
    /\ Borrowed("child", n, "-")
    /\ data' = Append([data EXCEPT ![n] = EmptyMap], data[n])
    /\ parent' = Append(parent, n)
    /\ root' = Append(root, IF root[n] # NoNode THEN root[n] ELSE n)
    /\ landed' = Append([landed EXCEPT ![n] = EmptyMap], landed[n])
    /\ glob' = Append(glob, EmptyMap)
    /\ prev' = data
    /\ ncalls' = ncalls + 1
    /\ last' = Call("child", n, "-", 0, "-", Some(Len(data) + 1), 0)
    /\ handles' = Append(handles, [node |-> Len(data) + 1, from |-> Len(handles) + 1])
    /\ UNCHANGED <<running, fault>>

PScope_child(n) ==
    /\ Borrowed("child", n, "-")
    /\ data' = Append(data, EmptyMap)
    /\ parent' = Append(parent, n)
    /\ root' = Append(root, IF root[n] # NoNode THEN root[n] ELSE n)
    /\ landed' = Append(landed, EmptyMap)
    /\ glob' = Append(glob, EmptyMap)
    /\ prev' = data
    /\ ncalls' = ncalls + 1
    /\ last' = Call("child", n, "-", 0, "-", Some(Len(data) + 1), 0)
    /\ handles' = Append(handles, [node |-> Len(data) + 1, from |-> Len(handles) + 1])
    /\ UNCHANGED <<running, fault>>

PScope_set_local(n, id, v) ==
    /\ Borrowed("set_local", n, id)
    /\ data' = Scope_set_local(data, n, id, v)
    /\ landed' = Land("set_local", n, id, v)
    /\ glob' = Note("set_local", n, id, v)
    /\ prev' = data
    /\ ncalls' = ncalls + 1
    /\ last' = Call("set_local", n, id, v, "-", None, 0)
    /\ UNCHANGED <<parent, root, handles, running, fault>>

PScope_set_global(n, id, v) ==
    /\ Borrowed("set_global", n, id)
    /\ data' = Scope_set_global(data, n, id, v)
    /\ landed' = Land("set_global", n, id, v)
    /\ glob' = Note("set_global", n, id, v)
    /\ prev' = data
    /\ ncalls' = ncalls + 1
    /\ last' = Call("set_global", n, id, v, "-", None, 0)
    /\ UNCHANGED <<parent, root, handles, running, fault>>

PScope_set_op(n, id, v) ==
    /\ Borrowed("set", n, id)
    /\ data' = PScope_set(data, n, id, v)
    /\ landed' = Land("set", n, id, v)
    /\ glob' = Note("set", n, id, v)
    /\ prev' = data
    /\ ncalls' = ncalls + 1
    /\ last' = Call("set", n, id, v, "-", None, 0)
    /\ UNCHANGED <<parent, root, handles, running, fault>>

PScope_try_replace_op(n, id, v) ==
    /\ Borrowed("try_replace", n, id)
    /\ LET r == PScope_try_replace(data, n, id, v)
       IN  /\ data' = r.data
           /\ last' = Call("try_replace", n, id, v, "-", r.ret, 0)
    /\ landed' = Land("try_replace", n, id, v)
    /\ glob' = Note("try_replace", n, id, v)
    /\ prev' = data
    /\ ncalls' = ncalls + 1
    /\ UNCHANGED <<parent, root, handles, running, fault>>

PScope_update(n, id, f) ==
    /\ Borrowed("update", n, id)
    /\ LET r == Scope_update(data, n, id, f)
       IN  /\ data' = r.data
           /\ last' = Call("update", n, id, 0, f, r.ret, r.calls)
    /\ LET b == Target("update", n, id)
           w == IF b = NoNode THEN 0 ELSE ApplyFn(f, landed[b][id]).val
       IN  /\ landed' = Land("update", n, id, w)
           /\ glob' = Note("update", n, id, w)
    /\ prev' = data
    /\ ncalls' = ncalls + 1
    /\ UNCHANGED <<parent, root, handles, running, fault>>

\* PScope::update with a closure that issues calls of its own: the walk has
\* borrowed the nodes from n up to the node m that binds id and has handed the
\* binding to f; every one of these RefMuts lives until update returns
PScope_update_enter(n, id, f) ==
    /\ Borrowed("update", n, id)
    /\ running = NoRun
    /\ LET path == Borrows_update(data, n, id)
           m == path[Len(path)]
       IN  /\ contains_key(data[m], id)
           /\ running' = [n |-> n, id |-> id, f |-> f, m |-> m,
                          held |-> {path[i] : i \in 1 .. Len(path)}]
    /\ prev' = data
    /\ ncalls' = ncalls + 1
    /\ UNCHANGED <<data, parent, root, last, landed, glob, fault, handles>>

\* f returns: its effect on the binding is in place, the borrows are dropped
PScope_update_return ==
    /\ last.op = "none" /\ fault = "none"
    /\ running # NoRun
    /\ LET r == ApplyFn(running.f, data[running.m][running.id])
       IN  /\ data' = [data EXCEPT ![running.m][running.id] = r.val]
           /\ last' = Call("update", running.n, running.id, 0, running.f, Some(r.out), 1)
    /\ LET w == ApplyFn(running.f, landed[running.m][running.id]).val
       IN  /\ landed' = Land("update", running.n, running.id, w)
           /\ glob' = Note("update", running.n, running.id, w)
    /\ running' = NoRun
    /\ prev' = data
    /\ UNCHANGED <<parent, root, ncalls, fault, handles>>

\* a call that is refused a borrow panics (BorrowError / BorrowMutError)
\* inside borrow() or borrow_mut(); the program does not go on
BorrowPanic(op, x, id) ==
    /\ Ready
    /\ ~Granted(BorrowsOf(op, data, x, id), running.held, Shared(op))
    /\ fault' = op
    /\ last' = Call("panic", x, id, 0, "-", None, 0)
    /\ prev' = data
    /\ ncalls' = ncalls + 1
    /\ UNCHANGED <<data, parent, root, landed, glob, running, handles>>

PScope_get(n, id) ==
    /\ Borrowed("get", n, id)
    /\ last' = Call("get", n, id, 0, "-", Scope_get(data, n, id), 0)
    /\ prev' = data
    /\ ncalls' = ncalls + 1
    /\ UNCHANGED <<data, parent, root, landed, glob, handles, running, fault>>

\* the caller has looked at the result and goes on to its next call, or back
\* into the transform it is running
Continue ==
    /\ last.op # "none"
    /\ ncalls < MaxCalls \/ running # NoRun
    /\ last' = NoCall
    /\ prev' = data
    /\ fault = "none"
    /\ UNCHANGED <<data, parent, root, landed, glob, ncalls, handles, running, fault>>

Handles == DOMAIN handles

\* the operations of PScope that borrow a node
Ops == {"set_local", "set_global", "set", "try_replace", "update", "get", "child"}

\* every call is issued through a handle the caller holds
Next ==
    \/ PScope_new
    \/ \E h \in Handles : PScope_clone(h)
    \/ \E h \in Handles : PScope_child(handles[h].node)
    \/ \E h \in Handles, id \in Ids, v \in Val : PScope_set_local(handles[h].node, id, v)
    \/ \E h \in Handles, id \in Ids, v \in Val : PScope_set_global(handles[h].node, id, v)
    \/ \E h \in Handles, id \in Ids, v \in Val : PScope_set_op(handles[h].node, id, v)
    \/ \E h \in Handles, id \in Ids, v \in Val : PScope_try_replace_op(handles[h].node, id, v)
    \/ \E h \in Handles, id \in Ids, f \in Fns : PScope_update(handles[h].node, id, f)
    \/ \E h \in Handles, id \in Ids : PScope_get(handles[h].node, id)
    \/ \E h \in Handles, id \in Ids, f \in Fns : PScope_update_enter(handles[h].node, id, f)
    \/ PScope_update_return
    \/ \E h \in Handles, id \in Ids, op \in Ops : BorrowPanic(op, handles[h].node, id)
    \/ Continue

Spec == Init /\ [][Next]_vars

TypeOK ==
    /\ Len(data) \in 1 .. MaxCalls + 1
    /\ ncalls \in 0 .. MaxCalls
    /\ Len(parent) = Len(data) /\ Len(root) = Len(data)
    /\ \A n \in Nodes : DOMAIN data[n] \subseteq Ids /\ \A i \in DOMAIN data[n] : data[n][i] \in Val

\* ------------------------------------------------------------ the properties
\* the binding of identifier i at node x in the store M, as an Option
Cell(M, x, i) == map_get(M[x], i)

\* D is P with at most the binding of id at node m changed
SameExcept(P, D, m, id) ==
    /\ Len(D) = Len(P)
    /\ \A x \in 1 .. Len(P), i \in Ids :
          (x # m \/ i # id) => Cell(D, x, i) = Cell(P, x, i)

\* some node of m's chain that is not on n's chain binds id in M
\* (for m below n: a node strictly below n on the way up from m)
BindsBelow(M, m, n, id) == \E x \in ChainSet(m) \ ChainSet(n) : id \in DOMAIN M[x]

\* some node of m's chain other than the root binds id in M
Shadowed(M, m, id) == \E x \in ChainSet(m) : parent[x] # NoNode /\ id \in DOMAIN M[x]

\* C1: from every node n of every reachable tree and for every identifier id,
\* get(id) gives Some(v) with v the value at the nearest node of n's chain
\* that binds id, and None exactly when no node of the chain binds id; a get
\* call returns just that.
C1_GetNearestBinding ==
    /\ \A n \in Nodes, id \in Ids :
          /\ Scope_get(data, n, id) = Lookup(data, n, id)
          /\ (Scope_get(data, n, id) = None) =
                 (\A x \in ChainSet(n) : id \notin DOMAIN data[x])
    /\ last.op = "get" =>
          /\ last.ret = Lookup(data, last.n, last.id)
          /\ data = prev

\* a get that found its value two levels up, at the grandparent
C1_Witness ==
    /\ last.op = "get"
    /\ last.ret # None
    /\ LET b == NearestBinder(data, last.n, last.id)
       IN  b # last.n /\ b # parent[last.n]

\* C2: when id is bound in n or in an ancestor of n, set(id, v) on n overwrites
\* the value at the nearest such node and changes no other binding; when that
\* node is an ancestor, n gains no entry for id, and every node whose nearest
\* binder of id is that ancestor (nodes of sibling subtrees below it included)
\* reads v through get.
C2_SetOverwritesNearest ==
    last.op = "set" =>
        LET n == last.n
            id == last.id
            v == last.val
            b == NearestBinder(prev, n, id)
        IN  b # NoNode =>
              /\ Cell(data, b, id) = Some(v)
              /\ SameExcept(prev, data, b, id)
              /\ (b # n => ~contains_key(data[n], id))
              /\ \A m \in Nodes :
                    NearestBinder(prev, m, id) = b => Scope_get(data, m, id) = Some(v)

\* a set that changed the value at a proper ancestor, read from a sibling subtree
C2_Witness ==
    /\ last.op = "set"
    /\ LET n == last.n
           id == last.id
           b == NearestBinder(prev, n, id)
       IN  /\ b # NoNode /\ b # n
           /\ prev[b][id] # last.val
           /\ \E m \in Nodes :
                 /\ m \notin ChainSet(n) /\ n \notin ChainSet(m)
                 /\ NearestBinder(prev, m, id) = b
                 /\ Scope_get(data, m, id) = Some(last.val)

\* C3 (as amended): when id is bound neither in n nor in any ancestor of n,
\* set(id, v) on n inserts id -> v into n's own bindings and changes no other
\* binding; afterwards get(id) gives v from n and from every descendant of n
\* with no binding of id on its chain below n, None from every ancestor of n,
\* and from every node that is neither n nor a descendant of n what it gave
\* before.
C3_SetDeclaresLocally ==
    last.op = "set" =>
        LET n == last.n
            id == last.id
            v == last.val
        IN  NearestBinder(prev, n, id) = NoNode =>
              /\ Cell(data, n, id) = Some(v)
              /\ SameExcept(prev, data, n, id)
              /\ \A m \in Nodes :
                    /\ (InSubtree(m, n) /\ ~BindsBelow(prev, m, n, id))
                          => Scope_get(data, m, id) = Some(v)
                    /\ (m \in ChainSet(n) \ {n}) => Scope_get(data, m, id) = None
                    /\ ~InSubtree(m, n)
                          => Scope_get(data, m, id) = Scope_get(prev, m, id)

\* C3 as stated: ... get(id) gives v from n and from the descendants of n that
\* do not bind id themselves, and None from every node of the tree that is
\* neither n nor a descendant of n.
C3_AsStated ==
    last.op = "set" =>
        LET n == last.n
            id == last.id
            v == last.val
        IN  NearestBinder(prev, n, id) = NoNode =>
              /\ Cell(data, n, id) = Some(v)
              /\ SameExcept(prev, data, n, id)
              /\ \A m \in Nodes :
                    /\ (InSubtree(m, n) /\ (m = n \/ ~contains_key(data[m], id)))
                          => Scope_get(data, m, id) = Some(v)
                    /\ (~InSubtree(m, n) /\ TreeRoot(m) = TreeRoot(n))
                          => Scope_get(data, m, id) = None

\* a set that declared id on a non-root node which has a descendant and,
\* elsewhere in the tree, a node that is not on its chain
C3_Witness ==
    /\ last.op = "set"
    /\ LET n == last.n
           id == last.id
       IN  /\ NearestBinder(prev, n, id) = NoNode
           /\ parent[n] # NoNode
           /\ contains_key(data[n], id)
           /\ \E m \in Nodes : m # n /\ InSubtree(m, n)
           /\ \E m \in Nodes : ~InSubtree(m, n) /\ m \notin ChainSet(n)

\* C4: set_global(id, v) on any node n leaves exactly the store that
\* set_local(id, v) on the root of n's tree would leave: the root maps id to v,
\* no other binding changes, whatever n and the nodes in between bind.
C4_SetGlobalIsSetLocalAtRoot ==
    last.op = "set_global" =>
        LET r == TreeRoot(last.n)
        IN  /\ data = Scope_set_local(prev, r, last.id, last.val)
            /\ Cell(data, r, last.id) = Some(last.val)
            /\ SameExcept(prev, data, r, last.id)

\* a set_global issued two levels below the root, past a parent that binds id
C4_Witness ==
    /\ last.op = "set_global"
    /\ Len(Chain(last.n)) >= 3
    /\ contains_key(prev[parent[last.n]], last.id)
    /\ prev[parent[last.n]][last.id] # last.val

\* C5 (as amended): after set_global(id, v) on any node, get(id) gives v, at
\* any depth, from every node of the same tree whose chain holds no binding of
\* id below the root, for as long as no later call shadows id with set_local
\* or writes the root's binding of id.
C5_SetGlobalSeenWhereUnshadowed ==
    \A r \in Nodes : \A id \in DOMAIN glob[r] : \A m \in Nodes :
        (TreeRoot(m) = r /\ ~Shadowed(data, m, id))
            => Scope_get(data, m, id) = Some(glob[r][id])

\* C5 as stated: after set_global(id, v) on any node, get(id) gives v from
\* every node of the same tree for as long as no node later shadows id with
\* set_local.
C5_AsStated ==
    \A r \in Nodes : \A id \in DOMAIN glob[r] : \A m \in Nodes :
        TreeRoot(m) = r => Scope_get(data, m, id) = Some(glob[r][id])

\* a set_global is on record, a later call has returned, and a node two levels
\* below the root reads the recorded value
C5_Witness ==
    /\ last.op \notin {"none", "set_global"}
    /\ \E r \in Nodes : \E id \in DOMAIN glob[r] : \E m \in Nodes :
          /\ TreeRoot(m) = r
          /\ Len(Chain(m)) >= 3
          /\ ~Shadowed(data, m, id)
          /\ Scope_get(data, m, id) = Some(glob[r][id])

\* C6: set_local(id, v) on n always leaves id -> v in n's own bindings,
\* whatever the ancestors bind, and changes no other binding; then n.get(id)
\* is v and nodes that are neither n nor descendants of n get what they got
\* before; and wherever a node n binds id, get(id) from n or from a
\* descendant of n gives the value held by n or by a node below n, never one
\* held by a proper ancestor of n.
C6_SetLocalShadows ==
    /\ last.op = "set_local" =>
          LET n == last.n
              id == last.id
              v == last.val
          IN  /\ Cell(data, n, id) = Some(v)
              /\ SameExcept(prev, data, n, id)
              /\ Scope_get(data, n, id) = Some(v)
              /\ \A m \in Nodes : \A i \in Ids :
                    ~InSubtree(m, n) => Scope_get(data, m, i) = Scope_get(prev, m, i)
    /\ \A n \in Nodes : \A id \in DOMAIN data[n] : \A m \in Nodes :
          InSubtree(m, n) =>
              LET b == NearestBinder(data, m, id)
              IN  /\ b # NoNode
                  /\ InSubtree(b, n)
                  /\ Scope_get(data, m, id) = Some(data[b][id])

\* a set_local on a non-root node that has a descendant, over an ancestor that
\* binds the same identifier to another value
C6_Witness ==
    /\ last.op = "set_local"
    /\ LET n == last.n
           id == last.id
       IN  /\ parent[n] # NoNode
           /\ \E a \in ChainSet(n) \ {n} :
                 contains_key(data[a], id) /\ data[a][id] # last.val
           /\ \E m \in Nodes : m # n /\ InSubtree(m, n)
                                 /\ Scope_get(data, m, id) = Some(last.val)

\* C7: when id is bound in n or in an ancestor of n, update(id, f) on n applies
\* f exactly once, to the value at the nearest node binding id, stores the
\* transformed value at that node, returns Some(what f returned), creates no
\* binding and changes no other binding; get(id) from n and from every other
\* node whose nearest binder is that node then gives the transformed value.
C7_UpdateTransformsNearest ==
    last.op = "update" =>
        LET n == last.n
            id == last.id
            b == NearestBinder(prev, n, id)
        IN  b # NoNode =>
              LET r == ApplyFn(last.f, prev[b][id])
              IN  /\ last.calls = 1
                  /\ last.ret = Some(r.out)
                  /\ Cell(data, b, id) = Some(r.val)
                  /\ SameExcept(prev, data, b, id)
                  /\ \A x \in Nodes : DOMAIN data[x] = DOMAIN prev[x]
                  /\ \A m \in Nodes :
                        NearestBinder(data, m, id) = b
                            => Scope_get(data, m, id) = Some(r.val)

\* an update issued below the binder, whose closure returned a value that is
\* not the one it stored
C7_Witness ==
    /\ last.op = "update"
    /\ LET n == last.n
           id == last.id
           b == NearestBinder(prev, n, id)
       IN  /\ b # NoNode /\ b # n
           /\ last.ret # Some(data[b][id])
           /\ data[b][id] # prev[b][id]
           /\ Scope_get(data, n, id) = Some(data[b][id])

\* C8: when id is bound neither in n nor in any ancestor of n, update(id, f)
\* on n returns None, never calls f, and leaves every binding of every node as
\* it was: no binding of id appears in n, in the root, or anywhere else.
C8_UpdateAbsentIsNoOp ==
    last.op = "update" =>
        (NearestBinder(prev, last.n, last.id) = NoNode =>
            /\ last.ret = None
            /\ last.calls = 0
            /\ data = prev
            /\ \A x \in Nodes : ~contains_key(data[x], last.id) \/ contains_key(prev[x], last.id))

\* an update of an unbound identifier on a non-root node, while the chain binds
\* the other identifier
C8_Witness ==
    /\ last.op = "update"
    /\ NearestBinder(prev, last.n, last.id) = NoNode
    /\ parent[last.n] # NoNode
    /\ \E i \in Ids : NearestBinder(prev, last.n, i) # NoNode
    /\ last.ret = None

C10_GetGivesLatestWrite ==
    /\ Len(landed) = Len(data)
    /\ \A m \in Nodes : \A id \in Ids :
          Scope_get(data, m, id) = Lookup(landed, m, id)

\* the latest write landed on the root, yet a node below keeps reading the
\* older value written on a nearer node
C10_Witness ==
    /\ last.op \in {"set", "set_global", "update", "set_local"}
    /\ Target(last.op, last.n, last.id) = TreeRoot(last.n)
    /\ \E m \in Nodes :
          /\ TreeRoot(m) = TreeRoot(last.n)
          /\ NearestBinder(landed, m, last.id) \notin {NoNode, TreeRoot(m)}
          /\ Scope_get(data, m, last.id) # Cell(data, TreeRoot(m), last.id)

\* the node a handle denotes
NodeOf(h) == handles[h].node

\* C11: handles alias nodes and never copy them: a clone denotes the very node
\* of the handle it was cloned from and cloning adds no node (there are as
\* many nodes as handles returned by new and child); and when a call changes
\* a binding of a node, whichever handle it was issued through, the very next
\* get through every handle whose lookup of that identifier reaches that node
\* gives the new value.
C11_HandlesAlias ==
    /\ \A g \in Handles :
          /\ NodeOf(g) \in Nodes
          /\ handles[g].from \in Handles
          /\ NodeOf(g) = NodeOf(handles[g].from)
    /\ Len(data) = Cardinality({g \in Handles : handles[g].from = g})
    /\ last.op = "clone" =>
          /\ data = prev
          /\ NodeOf(Len(handles)) = last.n
    /\ \A t \in 1 .. Len(prev) : \A i \in Ids :
          Cell(data, t, i) # Cell(prev, t, i) =>
              \A g \in Handles :
                  NearestBinder(data, NodeOf(g), i) = t
                      => Scope_get(data, NodeOf(g), i) = Cell(data, t, i)

\* a call has just changed a binding of a node that two handles denote, a
\* clone and its original, and a handle to a descendant reads the new value too
C11_Witness ==
    \E t \in 1 .. Len(prev) : \E i \in Ids :
        /\ Cell(data, t, i) # Cell(prev, t, i)
        /\ \E g \in Handles : handles[g].from # g /\ NodeOf(g) = t
                               /\ Scope_get(data, NodeOf(g), i) = Cell(data, t, i)
        /\ \E d \in Handles : NodeOf(d) # t /\ InSubtree(NodeOf(d), t)
                               /\ Scope_get(data, NodeOf(d), i) = Cell(data, t, i)

\* the nodes a call op(id, ..) on x has to access in the store M: x itself;
\* for set_global the root as well; for the lexical operations the nodes of
\* x's chain up to the nearest one that binds id, all of them when none does
Touches(op, M, x, id) ==
    LET c == Chain(x)
    IN  CASE op \in {"set_local", "child"} -> {x}
          [] op = "set_global" -> {x, TreeRoot(x)}
          [] OTHER -> {c[i] : i \in {k \in 1 .. Len(c) :
                                       \A j \in 1 .. k - 1 : id \notin DOMAIN M[c[j]]}}

\* C12 (as amended): a call issued while no update is running its transform
\* completes without a fault on every node, through every handle; a call
\* issued from inside the transform completes exactly when it has to access
\* none of the nodes the running update holds, and panics on a borrow
\* otherwise, leaving every binding as it was; apart from that panic the only
\* non-success outcome is the None of get and update, given exactly when the
\* identifier is not bound on the chain.
C12_FaultOnlyInsideTransform ==
    /\ running = NoRun => fault = "none"
    /\ running # NoRun =>
          \A x \in Nodes, id \in Ids, op \in Ops :
              Granted(BorrowsOf(op, data, x, id), running.held, Shared(op))
                  = (Touches(op, data, x, id) \cap running.held = {})
    /\ fault # "none" =>
          /\ last.op = "panic"
          /\ data = prev
          /\ Touches(fault, data, last.n, last.id) \cap running.held # {}
    /\ last.op \in {"get", "update"} =>
          (last.ret = None) = (NearestBinder(prev, last.n, last.id) = NoNode)

\* C12 as stated: in every reachable state every operation on any handle
\* completes without a fault.
C12_AsStated == fault = "none"

\* the transform of an update issued on a child, of a binding held by its
\* parent, reads through get from the parent and is refused the borrow
C12_Witness ==
    /\ fault = "get"
    /\ running.n # running.m
    /\ last.n = running.m

\* C13: every tree has exactly one node without a parent, and that node is the
\* only one of the tree without a cached root; the cached root of every other
\* node n is the node at the end of n's parent links, which is parent(n) when
\* parent(n) has no parent and the cached root of parent(n) otherwise.
C13_CachedRootIsTreeRoot ==
    \A n \in Nodes :
        /\ {x \in Nodes : TreeRoot(x) = TreeRoot(n) /\ parent[x] = NoNode} = {TreeRoot(n)}
        /\ (root[n] = NoNode) = (parent[n] = NoNode)
        /\ parent[n] # NoNode =>
              /\ root[n] = TreeRoot(n)
              /\ root[n] = IF parent[parent[n]] = NoNode
                           THEN parent[n]
                           ELSE root[parent[n]]

\* child has just made a node three levels below the root of a second tree
C13_Witness ==
    /\ last.op = "child"
    /\ LET c == Len(data)
       IN  /\ parent[parent[c]] # NoNode
           /\ root[c] # parent[c]
           /\ root[c] # 1

\* C14: no step changes the parent or the cached root of a node that exists,
\* and none removes a node; only new and child add a node, one at a time, and
\* they leave the bindings of every node that exists as they were; every other
\* operation leaves the set of nodes as it was.
C14_TreeShapeIsFixed ==
    [][ /\ Len(data') >= Len(data)
        /\ Len(parent') = Len(data') /\ Len(root') = Len(data')
        /\ \A n \in Nodes : parent'[n] = parent[n] /\ root'[n] = root[n]
        /\ Len(data') # Len(data) =>
              /\ Len(data') = Len(data) + 1
              /\ last'.op \in {"new", "child"}
              /\ \A n \in Nodes : data'[n] = data[n]
        /\ last'.op = "child" =>
              /\ Len(data') = Len(data) + 1
              /\ parent'[Len(data')] = last'.n
      ]_vars

\* child has just been called on a node that holds a binding, in a tree of
\* three nodes
C14_Witness ==
    /\ last.op = "child"
    /\ DOMAIN data[last.n] # {}
    /\ Cardinality(ChainSet(Len(data))) >= 3

Depth(n) == Len(Chain(n)) - 1

\* C16: parent and root references lead only to nodes allocated earlier, so
\* never to the node itself or to a descendant: along every chain the nodes
\* are strictly older and older, and the parent relation has no cycle; a get,
\* set, update or try_replace on a node at depth d visits the first nodes of
\* its chain in order, each once, at most d + 1 of them, and a set_global
\* visits its node and then at most the root, by one direct hop.
C16_WalksAreBoundedByDepth ==
    \A n \in Nodes :
        /\ parent[n] < n /\ root[n] < n
        /\ \A i \in 1 .. Depth(n) : Chain(n)[i + 1] < Chain(n)[i]
        /\ \A id \in Ids :
              /\ \A op \in {"get", "set", "update", "try_replace"} :
                    LET path == BorrowsOf(op, data, n, id)
                    IN  /\ Len(path) <= Depth(n) + 1
                        /\ path = SubSeq(Chain(n), 1, Len(path))
              /\ LET path == BorrowsOf("set_global", data, n, id)
                 IN  /\ path[1] = n
                     /\ Len(path) <= 2
                     /\ Len(path) = 2 => path[2] = TreeRoot(n) /\ path[2] # n

\* a get on a node at depth 2 has walked the three nodes of its chain and an
\* update on it has stopped at the parent
C16_Witness ==
    /\ last.op = "get"
    /\ Depth(last.n) = 2
    /\ Len(Borrows_get(prev, last.n, last.id)) = 3
    /\ \E id \in Ids : Len(Borrows_update(data, last.n, id)) = 2

\* C17: try_replace(id, val) on n never creates a binding.  When n or an
\* ancestor of n binds id it overwrites the value at the nearest such node,
\* changes nothing else and returns None; when no node of n's chain binds id
\* it returns Some(val) and leaves every binding as it was.  Every call of
\* set(id, val) leaves the store that try_replace(id, val) leaves, followed by
\* set_local(id, v) when, and only when, it returned Some(v).
C17_TryReplaceNeverDeclares ==
    /\ last.op = "try_replace" =>
          LET n == last.n
              id == last.id
              v == last.val
              b == NearestBinder(prev, n, id)
          IN  /\ \A x \in Nodes : DOMAIN data[x] = DOMAIN prev[x]
              /\ b # NoNode =>
                    /\ last.ret = None
                    /\ Cell(data, b, id) = Some(v)
                    /\ SameExcept(prev, data, b, id)
              /\ b = NoNode =>
                    /\ last.ret = Some(v)
                    /\ data = prev
    /\ last.op = "set" =>
          LET r == PScope_try_replace(prev, last.n, last.id, last.val)
          IN  data = IF r.ret # None
                     THEN Scope_set_local(r.data, last.n, last.id, r.ret[1])
                     ELSE r.data

\* try_replace on a child has handed the value back: the root binds the other
\* identifier only
C17_Witness ==
    /\ last.op = "try_replace"
    /\ last.ret = Some(last.val)
    /\ parent[last.n] # NoNode
    /\ DOMAIN data[TreeRoot(last.n)] = Ids \ {last.id}

\* the entries (node, identifier) whose binding the last call changed
Changed ==
    {c \in (1 .. Len(prev)) \X Ids : Cell(data, c[1], c[2]) # Cell(prev, c[1], c[2])}

\* C18: a call issued on node n changes at most one entry of the whole store:
\* an entry of the identifier it was given, in n, in an ancestor of n or (for
\* set_global) in the root of n's tree; other identifiers, descendants of n
\* and sibling subtrees keep their bindings.  get, child, an update that found
\* no binding and a try_replace that found none change no binding at all.
C18_OneCallOneEntry ==
    last.op # "none" =>
        /\ Len(data) >= Len(prev)
        /\ \A x \in Nodes \ (1 .. Len(prev)) : data[x] = EmptyMap
        /\ Cardinality(Changed) <= 1
        /\ \A c \in Changed :
              /\ c[2] = last.id
              /\ c[1] \in ChainSet(last.n)
              /\ last.op = "set_local" => c[1] = last.n
              /\ last.op = "set_global" => c[1] = TreeRoot(last.n)
        /\ last.op \in {"get", "child", "new", "clone", "panic"} => Changed = {}
        /\ (last.op = "update" /\ last.ret = None) => Changed = {}
        /\ (last.op = "try_replace" /\ last.ret # None) => Changed = {}

\* a set_global issued below the root has changed the root's entry alone,
\* in a store where the issuing node binds the same identifier itself
C18_Witness ==
    /\ last.op = "set_global"
    /\ Depth(last.n) >= 1
    /\ contains_key(prev[last.n], last.id)
    /\ Changed = {<<TreeRoot(last.n), last.id>>}

====
